---------------------------- MODULE Spec2Model ----------------------------
(***************************************************************************)
(* Model of the click aggregation backend of react-kick-football           *)
(* (src/react-football/backend/main.go): the in-memory Storage guarded by   *)
(* one RWMutex, the per-IP rate limiter, load/save against Redis, the       *)
(* periodic save goroutine, the signal goroutine and the HTTP handlers.     *)
(*                                                                         *)
(* Time is counted in units of 50 ms.  Redis strings are sequences of       *)
(* decimal digits.  A Redis call succeeds iff the server is up (and the     *)
(* client has not been closed) at the moment of the call.                   *)
(***************************************************************************)
EXTENDS Integers, Sequences, FiniteSets, TLC

\* ------------------------------------------------------------------ bounds
MaxNow == 41         \* the clock stops advancing here
MaxBoots == 2        \* process starts in one behaviour
MaxClicks == 3       \* click submissions accepted in one boot
MaxTicks == 2        \* firings of the save ticker in one boot
StressT == 2         \* increments per task in that scenario

\* --------------------------------------------------------------- constants
StartNow == 38       \* wall clock at the first process start (1.9 s)
TicksPerSec == 20    \* 50 ms units in a second
rateLimitTime == 2   \* 100 ms
MinClicks == 1
MaxClicksPerRequest == 10

None == "none"
Tasks == {"t1", "t2"}
Savers == {"saver", "sig"}
Malformed == [bad |-> TRUE]
CountryInputs == {"", "JP", "Worldwide"}
ClickInputs == {0, 3, 11}
ClickBodies == {Malformed} \cup
   {[bad |-> FALSE, country |-> c, clicks |-> k] : c \in CountryInputs, k \in ClickInputs}
ScoreBodies == {Malformed, [bad |-> FALSE, country |-> "JP", score |-> 101]}

EmptyMap == [x \in {} |-> 0]

VARIABLES
  now,            \* wall clock
  redisUp,        \* the Redis server answers
  durClicks,      \* Redis hash football:clicks, field -> decimal string
  durStart,       \* Redis key football:start_time, <<>> when absent
  proc,           \* "running", "crashed" (killed), "exited" (os.Exit)
  boots,          \* process starts so far
  pcMain,         \* position of main()
  mode,           \* branch main() took on initRedis: "starting", "redis", "memory"
  loadErr,        \* loadFromRedis returned an error
  countryClicks, lastClickIP, startTime, dirty,    \* Storage
  muWriter, muReaders,                             \* Storage.mu
  pcTask, pending,                                 \* request goroutines
  lbBuild,        \* task -> rows its getLeaderboard has read so far
  pcSave, clicksMap, saverFinal,                   \* goroutines calling saveToRedis
  stopClosed, connClosed, ticks,
  lastStatus, lbResp,                              \* latest HTTP reply
  \* history of the run, read by the properties only
  accepted, incCalls, loaded, lastSaved, lastSavedEpoch, created, savedBoot,
  savesAfterSignal, writeFailed, ioLog, epochKeyed,
  \* created: <<start time of the process that wrote football:start_time>>
  admits,         \* client address -> times at which checkRateLimit let it pass
  inflight,       \* task -> client address and decoded body of its request
  done,           \* click requests that have been committed
  addedBy         \* client address -> clicks its requests added to the counters

storeVars == <<countryClicks, lastClickIP, startTime, dirty>>
muVars == <<muWriter, muReaders>>
redisVars == <<redisUp, durClicks, durStart>>
taskVars == <<pcTask, pending, lbBuild>>
saveVars == <<pcSave, clicksMap, saverFinal, stopClosed, connClosed, ticks>>
respVars == <<lastStatus, lbResp>>
reqHist == <<admits, inflight, done, addedBy>>
histVars == <<accepted, incCalls, loaded, lastSaved, lastSavedEpoch, created, savedBoot,
              savesAfterSignal, writeFailed, ioLog, epochKeyed, reqHist>>
vars == <<now, redisVars, proc, boots, pcMain, mode, loadErr, storeVars, muVars,
          taskVars, saveVars, respVars, histVars>>

\* ----------------------------------------------------------- Go map helpers
Get(m, k) == IF k \in DOMAIN m THEN m[k] ELSE 0
Put(m, k, v) == [x \in DOMAIN m \cup {k} |-> IF x = k THEN v ELSE m[x]]
Size(m) == Cardinality(DOMAIN m)

RECURSIVE SumOver(_, _)
SumOver(m, S) ==
  IF S = {} THEN 0
  ELSE LET k == CHOOSE x \in S : TRUE IN m[k] + SumOver(m, S \ {k})
Total(m) == SumOver(m, DOMAIN m)

\* ------------------------------------------------- strconv / time conversions
\* only the last digit is written
FormatIntLastDigit(n) == <<n % 10>>

RECURSIVE FormatInt(_)
FormatInt(n) == IF n < 10 THEN <<n>> ELSE Append(FormatInt(n \div 10), n % 10)

RECURSIVE DigitsValue(_)
DigitsValue(s) ==
  IF Len(s) = 0 THEN 0 ELSE DigitsValue(SubSeq(s, 1, Len(s) - 1)) * 10 + s[Len(s)]

ParseInt(s) ==
  IF Len(s) > 0 /\ \A i \in 1..Len(s) : s[i] \in 0..9
  THEN [ok |-> TRUE, val |-> DigitsValue(s)]
  ELSE [ok |-> FALSE, val |-> 0]

Unix(t) == t \div TicksPerSec
TimeUnix(sec) == sec * TicksPerSec

\* Redis HSET key field value [field value ...]: listed fields are overwritten,
\* other fields of the hash stay.
HSet(hash, m) ==
  [f \in DOMAIN hash \cup DOMAIN m |-> IF f \in DOMAIN m THEN FormatInt(m[f]) ELSE hash[f]]

\* The loop of loadFromRedis over the HGETALL reply: fields that parse are
\* stored, the others are skipped.
LoadClicks(mem, hash) ==
  LET good == {f \in DOMAIN hash : ParseInt(hash[f]).ok}
  IN [f \in DOMAIN mem \cup good |-> IF f \in good THEN ParseInt(hash[f]).val ELSE mem[f]]

RedisOk == redisUp /\ ~connClosed

\* ------------------------------------------------------------ process start
NoPending == [country |-> "", clicks |-> 0, tmp |-> 0]
NoRequest == [ip |-> <<>>, country |-> "", clicks |-> 0]

\* package-level initialisation of a new process (var storage = &Storage{...})
FreshProcess ==
  /\ countryClicks' = EmptyMap
  /\ lastClickIP' = EmptyMap
  /\ startTime' = now
  /\ dirty' = FALSE
  /\ muWriter' = None
  /\ muReaders' = {}
  /\ pcMain' = "init"
  /\ mode' = "starting"
  /\ loadErr' = FALSE
  /\ pcTask' = [t \in Tasks |-> "idle"]
  /\ pending' = [t \in Tasks |-> NoPending]
  /\ lbBuild' = [t \in Tasks |-> EmptyMap]
  /\ pcSave' = [g \in Savers |-> "off"]
  /\ clicksMap' = [g \in Savers |-> EmptyMap]
  /\ saverFinal' = FALSE
  /\ stopClosed' = FALSE
  /\ connClosed' = FALSE
  /\ ticks' = 0
  /\ lastStatus' = 0
  /\ lbResp' = <<>>
  /\ accepted' = EmptyMap
  /\ incCalls' = EmptyMap
  /\ loaded' = EmptyMap
  /\ savesAfterSignal' = 0
  /\ writeFailed' = "no"
  /\ ioLog' = {}
  /\ epochKeyed' = FALSE
  /\ admits' = EmptyMap
  /\ inflight' = [t \in Tasks |-> NoRequest]
  /\ done' = {}
  /\ addedBy' = EmptyMap

Init ==
  /\ now = StartNow
  /\ redisUp \in BOOLEAN
  /\ durClicks = EmptyMap
  /\ durStart = <<>>
  /\ proc = "running"
  /\ boots = 1
  /\ countryClicks = EmptyMap
  /\ lastClickIP = EmptyMap
  /\ startTime = StartNow
  /\ dirty = FALSE
  /\ muWriter = None
  /\ muReaders = {}
  /\ pcMain = "init"
  /\ mode = "starting"
  /\ loadErr = FALSE
  /\ pcTask = [t \in Tasks |-> "idle"]
  /\ pending = [t \in Tasks |-> NoPending]
  /\ lbBuild = [t \in Tasks |-> EmptyMap]
  /\ pcSave = [g \in Savers |-> "off"]
  /\ clicksMap = [g \in Savers |-> EmptyMap]
  /\ saverFinal = FALSE
  /\ stopClosed = FALSE
  /\ connClosed = FALSE
  /\ ticks = 0
  /\ lastStatus = 0
  /\ lbResp = <<>>
  /\ accepted = EmptyMap
  /\ incCalls = EmptyMap
  /\ loaded = EmptyMap
  /\ lastSaved = EmptyMap
  /\ lastSavedEpoch = [epoch |-> 0, keyed |-> FALSE]
  /\ created = <<>>
  /\ savedBoot = 0
  /\ savesAfterSignal = 0
  /\ writeFailed = "no"
  /\ ioLog = {}
  /\ epochKeyed = FALSE
  /\ admits = EmptyMap
  /\ inflight = [t \in Tasks |-> NoRequest]
  /\ done = {}
  /\ addedBy = EmptyMap

Running == proc = "running"

\* requests are taken as soon as the process runs
ServingEarly == Running

Serving == Running /\ pcMain = "serve"
MemoryOnly == Serving /\ mode = "memory"

\* ------------------------------------------------------------- environment
Advance ==
  /\ now < MaxNow
  /\ now' = now + 1
  /\ UNCHANGED <<redisVars, proc, boots, pcMain, mode, loadErr, storeVars, muVars,
                 taskVars, saveVars, respVars, histVars>>

RedisDown ==
  /\ redisUp
  /\ redisUp' = FALSE
  /\ UNCHANGED <<now, durClicks, durStart, proc, boots, pcMain, mode, loadErr, storeVars,
                 muVars, taskVars, saveVars, respVars, histVars>>

RedisBack ==
  /\ ~redisUp
  /\ redisUp' = TRUE
  /\ UNCHANGED <<now, durClicks, durStart, proc, boots, pcMain, mode, loadErr, storeVars,
                 muVars, taskVars, saveVars, respVars, histVars>>

\* kill -9 / power loss
Crash ==
  /\ Running
  /\ proc' = "crashed"
  /\ UNCHANGED <<now, redisVars, boots, pcMain, mode, loadErr, storeVars, muVars,
                 taskVars, saveVars, respVars, histVars>>

Restart ==
  /\ ~Running
  /\ boots < MaxBoots
  /\ boots' = boots + 1
  /\ proc' = "running"
  /\ FreshProcess
  /\ UNCHANGED <<now, redisVars, lastSaved, lastSavedEpoch, created, savedBoot>>

\* ------------------------------------------------------------------ main()
\* Both goroutines of the else-branch of main are started, then the server.
StartServingAlways(withRedis) ==
  /\ pcMain' = "serve"
  /\ pcSave' = [saver |-> "select", sig |-> "wait"]

StartServing(withRedis) ==
  /\ pcMain' = "serve"
  /\ pcSave' = IF withRedis THEN [saver |-> "select", sig |-> "wait"] ELSE pcSave

InitRedis ==
  /\ Running /\ pcMain = "init"
  /\ ioLog' = ioLog \cup {"PING"}
  /\ IF redisUp
     THEN /\ pcMain' = "load_hgetall"
          /\ mode' = "redis"
          /\ muWriter' = "main"
          /\ UNCHANGED pcSave
     ELSE /\ mode' = "memory"
          /\ StartServing(FALSE)
          /\ UNCHANGED muWriter
  /\ UNCHANGED <<now, redisVars, proc, boots, loadErr, storeVars, muReaders, taskVars,
                 clicksMap, saverFinal, stopClosed, connClosed, ticks, respVars,
                 accepted, incCalls, loaded, lastSaved, lastSavedEpoch, created, savedBoot,
                 savesAfterSignal, writeFailed, epochKeyed, reqHist>>

LoadHGetAll ==
  /\ Running /\ pcMain = "load_hgetall"
  /\ ioLog' = ioLog \cup {"HGETALL"}
  /\ IF redisUp
     THEN /\ countryClicks' = LoadClicks(countryClicks, durClicks)
          /\ pcMain' = "load_get"
          /\ UNCHANGED <<loadErr, muWriter, pcSave, loaded>>
     ELSE /\ loadErr' = TRUE
          /\ muWriter' = None
          /\ StartServing(TRUE)
          /\ loaded' = countryClicks
          /\ UNCHANGED countryClicks
  /\ UNCHANGED <<now, redisVars, proc, boots, mode, lastClickIP, startTime, dirty, muReaders,
                 taskVars, clicksMap, saverFinal, stopClosed, connClosed, ticks,
                 respVars, accepted, incCalls, lastSaved, lastSavedEpoch, created, savedBoot,
                 savesAfterSignal, writeFailed, epochKeyed, reqHist>>

\* every reply of GET is taken for redis.Nil
IsNilAlways(v) == TRUE

\* err == redis.Nil: the key does not exist
IsNil(v) == v = <<>>

LoadGet ==
  /\ Running /\ pcMain = "load_get"
  /\ ioLog' = ioLog \cup {"GET"}
  /\ IF redisUp /\ IsNil(durStart)
     THEN /\ pcMain' = "load_set"
          /\ UNCHANGED <<startTime, muWriter, pcSave, loaded>>
     ELSE /\ startTime' = IF redisUp /\ ParseInt(durStart).ok
                          THEN TimeUnix(ParseInt(durStart).val) ELSE startTime
          /\ muWriter' = None
          /\ StartServing(TRUE)
          /\ loaded' = countryClicks
  /\ epochKeyed' = (redisUp /\ ParseInt(durStart).ok)
  /\ UNCHANGED <<now, redisVars, proc, boots, mode, loadErr, countryClicks, lastClickIP, dirty,
                 muReaders, taskVars, clicksMap, saverFinal, stopClosed, connClosed, ticks,
                 respVars, accepted, incCalls, lastSaved, lastSavedEpoch, created, savedBoot,
                 savesAfterSignal, writeFailed, reqHist>>

LoadSet ==
  /\ Running /\ pcMain = "load_set"
  /\ ioLog' = ioLog \cup {"SET"}
  /\ durStart' = IF redisUp THEN FormatInt(Unix(startTime)) ELSE durStart
  /\ muWriter' = None
  /\ StartServing(TRUE)
  /\ loaded' = countryClicks
  /\ epochKeyed' = redisUp
  /\ created' = IF redisUp THEN <<startTime>> ELSE created
  /\ UNCHANGED <<now, redisUp, durClicks, proc, boots, mode, loadErr, storeVars, muReaders,
                 taskVars, clicksMap, saverFinal, stopClosed, connClosed, ticks,
                 respVars, accepted, incCalls, lastSaved, lastSavedEpoch, savedBoot,
                 savesAfterSignal, writeFailed, reqHist>>

\* ------------------------------------------------------------- Storage.mu
\* writers that exclude readers only
CanLockSharedWriters == muReaders = {}

\* a writer that does not wait for the readers to leave
CanLockIgnoresReaders == muWriter = None

CanLock == muWriter = None /\ muReaders = {}
CanRLock == muWriter = None

\* ------------------------------------------------------------ saveToRedis
AfterSave(g) == IF g = "sig" THEN "close" ELSE IF saverFinal THEN "done" ELSE "select"

\* the early return of saveToRedis
NothingToSave(d, m) == ~d /\ Size(m) = 0

\* RLock, the early return, the copy into clicksMap
SaveBegin(g) ==
  /\ Running /\ pcSave[g] = "begin"
  /\ CanRLock
  /\ savesAfterSignal' = IF stopClosed THEN savesAfterSignal + 1 ELSE savesAfterSignal
  /\ IF NothingToSave(dirty, countryClicks)
     THEN /\ pcSave' = [pcSave EXCEPT ![g] = AfterSave(g)]
          /\ UNCHANGED <<muReaders, clicksMap, dirty>>
     ELSE IF Size(countryClicks) > 0
     THEN /\ muReaders' = muReaders \cup {g}
          /\ clicksMap' = [clicksMap EXCEPT ![g] = countryClicks]
          /\ pcSave' = [pcSave EXCEPT ![g] = "hset"]
          /\ UNCHANGED dirty
     ELSE /\ dirty' = FALSE
          /\ pcSave' = [pcSave EXCEPT ![g] = AfterSave(g)]
          /\ UNCHANGED <<muReaders, clicksMap>>
  /\ UNCHANGED <<now, redisVars, proc, boots, pcMain, mode, loadErr, countryClicks, lastClickIP,
                 startTime, muWriter, taskVars, saverFinal, stopClosed, connClosed, ticks,
                 respVars, accepted, incCalls, loaded, lastSaved, lastSavedEpoch, created, savedBoot,
                 writeFailed, ioLog, epochKeyed, reqHist>>

\* dirty cleared before the error of HSET is looked at
DirtyCleared(ok, d) == FALSE

\* dirty after the HSET returned: cleared only past the error return
DirtyAfterSave(ok, d) == IF ok THEN FALSE ELSE d

\* the HSET call, then dirty = false, the deferred RUnlock and the return
SaveHSet(g) ==
  /\ Running /\ pcSave[g] = "hset"
  /\ ioLog' = ioLog \cup {"HSET"}
  /\ IF RedisOk
     THEN /\ durClicks' = HSet(durClicks, clicksMap[g])
          /\ lastSaved' = clicksMap[g]
          /\ lastSavedEpoch' = [epoch |-> startTime, keyed |-> epochKeyed]
          /\ savedBoot' = boots
          /\ writeFailed' = IF writeFailed = "failed" THEN "recovered" ELSE writeFailed
     ELSE /\ writeFailed' = "failed"
          /\ UNCHANGED <<durClicks, lastSaved, lastSavedEpoch, savedBoot>>
  /\ dirty' = DirtyAfterSave(RedisOk, dirty)
  /\ muReaders' = muReaders \ {g}
  /\ clicksMap' = [clicksMap EXCEPT ![g] = EmptyMap]
  /\ pcSave' = [pcSave EXCEPT ![g] = AfterSave(g)]
  /\ UNCHANGED <<now, redisUp, durStart, proc, boots, pcMain, mode, loadErr, countryClicks,
                 lastClickIP, startTime, muWriter, taskVars, saverFinal, stopClosed,
                 connClosed, ticks, respVars, accepted, incCalls, loaded,
                 savesAfterSignal, epochKeyed, reqHist, created>>

\* ------------------------------------------------------- startPeriodicSave
\* case <-ticker.C
SaverTick ==
  /\ Running /\ pcSave["saver"] = "select"
  /\ ticks < MaxTicks
  /\ ticks' = ticks + 1
  /\ saverFinal' = FALSE
  /\ pcSave' = [pcSave EXCEPT !["saver"] = "begin"]
  /\ UNCHANGED <<now, redisVars, proc, boots, pcMain, mode, loadErr, storeVars, muVars,
                 taskVars, clicksMap, stopClosed, connClosed, respVars, histVars>>

\* case <-stopChan
SaverStop ==
  /\ Running /\ pcSave["saver"] = "select"
  /\ stopClosed
  /\ saverFinal' = TRUE
  /\ pcSave' = [pcSave EXCEPT !["saver"] = "begin"]
  /\ UNCHANGED <<now, redisVars, proc, boots, pcMain, mode, loadErr, storeVars, muVars,
                 taskVars, clicksMap, stopClosed, connClosed, ticks, respVars,
                 histVars>>

\* ------------------------------------------------- the signal goroutine
\* SIGINT/SIGTERM is delivered: <-sigChan, close(stopChan)
Signal ==
  /\ Running /\ pcSave["sig"] = "wait"
  /\ stopClosed' = TRUE
  /\ pcSave' = [pcSave EXCEPT !["sig"] = "begin"]
  /\ UNCHANGED <<now, redisVars, proc, boots, pcMain, mode, loadErr, storeVars, muVars,
                 taskVars, clicksMap, saverFinal, connClosed, ticks, respVars,
                 histVars>>

\* redisClient.Close()
SigClose ==
  /\ Running /\ pcSave["sig"] = "close"
  /\ connClosed' = TRUE
  /\ pcSave' = [pcSave EXCEPT !["sig"] = "exit"]
  /\ UNCHANGED <<now, redisVars, proc, boots, pcMain, mode, loadErr, storeVars, muVars,
                 taskVars, clicksMap, saverFinal, stopClosed, ticks, respVars,
                 histVars>>

\* os.Exit(0)
SigExit ==
  /\ Running /\ pcSave["sig"] = "exit"
  /\ proc' = "exited"
  /\ UNCHANGED <<now, redisVars, boots, pcMain, mode, loadErr, storeVars, muVars, taskVars,
                 saveVars, respVars, histVars>>

\* ----------------------------------------------------------- rate limiter
\* client addresses are pairs <<host, n>>; each task serves one client
ClientIP(t) == <<t, 0>>

\* a click exactly one interval after the last one is still refused
RateLimitedInclusive(last, ip, t) == ip \in DOMAIN last /\ t - last[ip] <= rateLimitTime

\* checkRateLimit returns false
RateLimited(last, ip, t) == ip \in DOMAIN last /\ t - last[ip] < rateLimitTime

\* the timestamp of a rejected call is recorded too
checkRateLimitStampsAll(last, ip, t) ==
  [ok |-> ~RateLimited(last, ip, t), last |-> Put(last, ip, t)]

\* the result of checkRateLimit and the lastClickIP map it leaves
checkRateLimit(last, ip, t) ==
  IF RateLimited(last, ip, t)
  THEN [ok |-> FALSE, last |-> last]
  ELSE [ok |-> TRUE, last |-> Put(last, ip, t)]

\* ---------------------------------------------------- payload validation
CountryOf(c) == IF c = "" THEN "Unknown" ELSE c
\* no lower bound on the clicks of a request
ClampLowKeeps(k) == k

ClampLow(k) == IF k < MinClicks THEN MinClicks ELSE k
ClampClicks(k) ==
  IF ClampLow(k) > MaxClicksPerRequest THEN MaxClicksPerRequest ELSE ClampLow(k)

\* ------------------------------------------------------------ handleClick
\* checkRateLimit (under the write lock), decoding and validation of the body
HandleClick(t, ip, body) ==
  /\ Serving /\ pcTask[t] = "idle"
  /\ CanLock
  /\ lastClickIP' = checkRateLimit(lastClickIP, ip, now).last
  /\ IF ~checkRateLimit(lastClickIP, ip, now).ok
     THEN /\ lastStatus' = 429
          /\ lbResp' = <<>>
          /\ UNCHANGED <<taskVars, admits, inflight>>
     ELSE /\ admits' = Put(admits, ip,
                         (IF ip \in DOMAIN admits THEN admits[ip] ELSE {}) \cup {now})
          /\ IF body.bad
             THEN /\ lastStatus' = 400
                  /\ lbResp' = <<>>
                  /\ UNCHANGED <<taskVars, inflight>>
             ELSE /\ pending' = [pending EXCEPT ![t] =
                        [country |-> CountryOf(body.country),
                         clicks |-> ClampClicks(body.clicks), tmp |-> 0]]
                  /\ pcTask' = [pcTask EXCEPT ![t] = "inc_lock"]
                  /\ inflight' = [inflight EXCEPT ![t] =
                        [ip |-> ip, country |-> body.country, clicks |-> body.clicks]]
                  /\ UNCHANGED <<lastStatus, lbResp, lbBuild>>
  /\ UNCHANGED <<now, redisVars, proc, boots, pcMain, mode, loadErr, countryClicks, startTime,
                 dirty, muVars, saveVars, accepted, incCalls, loaded, lastSaved,
                 lastSavedEpoch, created, savedBoot, savesAfterSignal, writeFailed, ioLog,
                 epochKeyed, done, addedBy>>

\* incrementClicks: Lock, read of countryClicks[country]
IncLock(t) ==
  /\ Running /\ pcTask[t] = "inc_lock"
  /\ CanLock
  /\ muWriter' = t
  /\ pending' = [pending EXCEPT ![t].tmp = Get(countryClicks, pending[t].country)]
  /\ pcTask' = [pcTask EXCEPT ![t] = "inc_write"]
  /\ UNCHANGED <<now, redisVars, proc, boots, pcMain, mode, loadErr, storeVars, muReaders,
                 lbBuild, saveVars, respVars, histVars>>

\* incrementClicks: the store of the sum, dirty = true, Unlock; the 200 reply
IncWrite(t) ==
  /\ Running /\ pcTask[t] = "inc_write"
  /\ countryClicks' = Put(countryClicks, pending[t].country,
                          pending[t].tmp + pending[t].clicks)
  /\ dirty' = TRUE
  /\ muWriter' = None
  /\ pcTask' = [pcTask EXCEPT ![t] = "idle"]
  /\ pending' = [pending EXCEPT ![t] = NoPending]
  /\ lastStatus' = 200
  /\ lbResp' = <<>>
  /\ accepted' = Put(accepted, pending[t].country,
                     Get(accepted, pending[t].country) + pending[t].clicks)
  /\ incCalls' = Put(incCalls, t, Get(incCalls, t) + 1)
  /\ inflight' = [inflight EXCEPT ![t] = NoRequest]
  /\ done' = done \cup {inflight[t]}
  /\ addedBy' = Put(addedBy, inflight[t].ip,
                     Get(addedBy, inflight[t].ip) + pending[t].tmp + pending[t].clicks
                       - Get(countryClicks, pending[t].country))
  /\ UNCHANGED <<now, redisVars, proc, boots, pcMain, mode, loadErr, lastClickIP, startTime,
                 muReaders, saveVars, loaded, lastSaved, lastSavedEpoch, created, savedBoot,
                 savesAfterSignal, writeFailed, ioLog, epochKeyed, admits, lbBuild>>

\* ------------------------------------------------------------ handleScore
\* a score submission that goes through the rate limiter first
HandleScoreLimited(t, body) ==
  /\ Serving /\ pcTask[t] = "idle"
  /\ CanLock
  /\ lastClickIP' = checkRateLimit(lastClickIP, ClientIP(t), now).last
  /\ lastStatus' = IF ~checkRateLimit(lastClickIP, ClientIP(t), now).ok THEN 429
                   ELSE IF body.bad THEN 400 ELSE 200
  /\ lbResp' = <<>>
  /\ UNCHANGED <<now, redisVars, proc, boots, pcMain, mode, loadErr, countryClicks,
                 startTime, dirty, muVars, taskVars, saveVars, histVars>>

HandleScore(t, body) ==
  /\ Serving /\ pcTask[t] = "idle"
  /\ lastStatus' = IF body.bad THEN 400 ELSE 200
  /\ lbResp' = <<>>
  /\ UNCHANGED <<now, redisVars, proc, boots, pcMain, mode, loadErr, storeVars, muVars,
                 taskVars, saveVars, histVars>>

\* ---------------------------------------------------------- getLeaderboard
RECURSIVE PermsOf(_)
PermsOf(S) ==
  IF S = {} THEN {<<>>}
  ELSE UNION {{<<x>> \o q : q \in PermsOf(S \ {x})} : x \in S}

\* the rows are left in map iteration order
SortOutcomesUnsorted(m) == PermsOf(DOMAIN m)

\* sort.Slice with less = "clicks greater": any order of the rows in which no
\* row has fewer clicks than a later one (map iteration order is random and the
\* sort is not stable).
SortOutcomes(m) ==
  {q \in PermsOf(DOMAIN m) : \A i \in 1..(Len(q) - 1) : m[q[i]] >= m[q[i + 1]]}

\* kps as the exact fraction num/den
NoKps == [num |-> 0, den |-> 1]
Kps(total, elapsed) ==
  IF elapsed > 0 THEN [num |-> total * TicksPerSec, den |-> elapsed] ELSE NoKps

\* the total overwritten by each row instead of accumulated
WorldwideRowLast(m, st, t) ==
  [country |-> "Worldwide",
   clicks |-> IF DOMAIN m = {} THEN 0 ELSE m[CHOOSE c \in DOMAIN m : TRUE],
   kps |-> Kps(Total(m), t - st)]

WorldwideRow(m, st, t) ==
  [country |-> "Worldwide", clicks |-> Total(m), kps |-> Kps(Total(m), t - st)]

getLeaderboard(m, st, t) ==
  {<<WorldwideRow(m, st, t)>> \o
     [i \in 1..Len(q) |-> [country |-> q[i], clicks |-> m[q[i]], kps |-> NoKps]] :
   q \in SortOutcomes(m)}

HandleLeaderboard(t) ==
  /\ Serving /\ pcTask[t] = "idle"
  /\ CanRLock
  /\ lbResp' \in getLeaderboard(countryClicks, startTime, now)
  /\ lastStatus' = 200
  /\ UNCHANGED <<now, redisVars, proc, boots, pcMain, mode, loadErr, storeVars, muVars,
                 taskVars, saveVars, histVars>>

\* getLeaderboard step by step: RLock and the start of the range loop
LbBegin(t) ==
  /\ Serving /\ pcTask[t] = "idle"
  /\ CanRLock
  /\ muReaders' = muReaders \cup {t}
  /\ lbBuild' = [lbBuild EXCEPT ![t] = EmptyMap]
  /\ pcTask' = [pcTask EXCEPT ![t] = "lb_read"]
  /\ UNCHANGED <<now, redisVars, proc, boots, pcMain, mode, loadErr, storeVars, muWriter,
                 pending, saveVars, respVars, histVars>>

\* one iteration of the range loop: the row of a country not yet visited
LbRead(t) ==
  /\ Running /\ pcTask[t] = "lb_read"
  /\ \E c \in DOMAIN countryClicks \ DOMAIN lbBuild[t] :
        lbBuild' = [lbBuild EXCEPT ![t] = Put(lbBuild[t], c, countryClicks[c])]
  /\ UNCHANGED <<now, redisVars, proc, boots, pcMain, mode, loadErr, storeVars, muVars,
                 pcTask, pending, saveVars, respVars, histVars>>

\* the end of the loop: the sort, the Worldwide row over the rows appended,
\* the deferred RUnlock and the reply of handleLeaderboard
LbEnd(t) ==
  /\ Running /\ pcTask[t] = "lb_read"
  /\ DOMAIN countryClicks \subseteq DOMAIN lbBuild[t]
  /\ lbResp' \in getLeaderboard(lbBuild[t], startTime, now)
  /\ lastStatus' = 200
  /\ muReaders' = muReaders \ {t}
  /\ lbBuild' = [lbBuild EXCEPT ![t] = EmptyMap]
  /\ pcTask' = [pcTask EXCEPT ![t] = "idle"]
  /\ UNCHANGED <<now, redisVars, proc, boots, pcMain, mode, loadErr, storeVars, muWriter,
                 pending, saveVars, histVars>>

\* ----------------------------------------------------------- specifications
\* click submissions accepted in this boot, committed or in flight
ClicksTaken == Total(incCalls) + Cardinality({u \in Tasks : pcTask[u] # "idle"})
LifecycleBodies == {[bad |-> FALSE, country |-> "JP", clicks |-> 3],
                    [bad |-> FALSE, country |-> "", clicks |-> 11]}

\* One run of the process from its start to os.Exit: load, requests from two
\* clients, periodic saves, Redis outages and the signal-driven shutdown.
Next ==
  \/ RedisDown
  \/ RedisBack
  \/ InitRedis
  \/ LoadHGetAll
  \/ LoadGet
  \/ LoadSet
  \/ SaverTick
  \/ SaverStop
  \/ Signal
  \/ SigClose
  \/ SigExit
  \/ \E g \in Savers : SaveBegin(g)
  \/ \E g \in Savers : SaveHSet(g)
  \/ \E t \in Tasks, body \in LifecycleBodies :
        ClicksTaken < MaxClicks /\ HandleClick(t, ClientIP(t), body)
  \/ \E t \in Tasks : IncLock(t)
  \/ \E t \in Tasks : IncWrite(t)
  \/ \E t \in Tasks : HandleLeaderboard(t)

Spec == Init /\ [][Next]_vars

\* Kills and restarts: a process is killed at any point and started again
\* later, against the same Redis; one client, periodic saves only.
\* the bodies of the lifecycle and one with a negative number of clicks
RecoverBodies == LifecycleBodies \cup {[bad |-> FALSE, country |-> "JP", clicks |-> -2]}

NextRecover ==
  \/ (~Running /\ Advance)
  \/ RedisDown
  \/ RedisBack
  \/ Crash
  \/ Restart
  \/ InitRedis
  \/ LoadHGetAll
  \/ LoadGet
  \/ LoadSet
  \/ SaverTick
  \/ SaveBegin("saver")
  \/ SaveHSet("saver")
  \/ \E body \in RecoverBodies :
        ClicksTaken < MaxClicks /\ HandleClick("t1", ClientIP("t1"), body)
  \/ IncLock("t1")
  \/ IncWrite("t1")
  \/ HandleLeaderboard("t1")

SpecRecover == Init /\ [][NextRecover]_vars

\* one body of each kind: unparsable, clicks within the range, above it and
\* below it, a country, no country, and the name of the aggregate row
ServeBodies == LifecycleBodies \cup
   {Malformed, [bad |-> FALSE, country |-> "Worldwide", clicks |-> 0]}

\* Request handling in one process: click submissions of every kind from two
\* clients, score submissions and leaderboard reads, as time passes.
NextServe ==
  \/ Advance
  \/ InitRedis
  \/ LoadHGetAll
  \/ LoadGet
  \/ LoadSet
  \/ \E t \in Tasks, body \in ServeBodies :
        ClicksTaken < MaxClicks /\ HandleClick(t, ClientIP(t), body)
  \/ \E t \in Tasks : IncLock(t)
  \/ \E t \in Tasks : IncWrite(t)
  \/ \E t \in Tasks, body \in ScoreBodies : HandleScore(t, body)
  \/ \E t \in Tasks : HandleLeaderboard(t)

SpecServe == Init /\ [][NextServe]_vars

\* Validation of the body: one connection at a time submits click requests
\* with every body that parses, each from a client address not seen before,
\* and reads the leaderboard.
FreshClick(t, body) ==
  /\ ClicksTaken < MaxClicks
  /\ HandleClick(t, <<t, Size(lastClickIP) + 1>>, body)

NextBodies ==
  \/ InitRedis
  \/ LoadHGetAll
  \/ LoadGet
  \/ LoadSet
  \/ \E body \in ClickBodies \ {Malformed} : FreshClick("t1", body)
  \/ IncLock("t1")
  \/ IncWrite("t1")
  \/ HandleLeaderboard("t1")

SpecBodies == Init /\ [][NextBodies]_vars

\* Increments of one task, each from a new client address, interleaved with
\* the leaderboard builds of another task, taken row by row, and with the
\* periodic saves.
NextCut ==
  \/ InitRedis
  \/ LoadHGetAll
  \/ LoadGet
  \/ LoadSet
  \/ SaverTick
  \/ SaveBegin("saver")
  \/ SaveHSet("saver")
  \/ \E body \in LifecycleBodies : FreshClick("t1", body)
  \/ IncLock("t1")
  \/ IncWrite("t1")
  \/ LbBegin("t2")
  \/ LbRead("t2")
  \/ LbEnd("t2")

SpecCut == Init /\ [][NextCut]_vars

\* A process that started against an unreachable or flaky Redis and keeps
\* running: one client, periodic saves, every goroutine scheduled fairly.
NextDegraded ==
  \/ RedisDown
  \/ RedisBack
  \/ InitRedis
  \/ LoadHGetAll
  \/ LoadGet
  \/ LoadSet
  \/ SaverTick
  \/ SaveBegin("saver")
  \/ SaveHSet("saver")
  \/ \E body \in LifecycleBodies :
        ClicksTaken < MaxClicks /\ HandleClick("t1", ClientIP("t1"), body)
  \/ IncLock("t1")
  \/ IncWrite("t1")

FairDegraded ==
  /\ WF_vars(InitRedis) /\ WF_vars(LoadHGetAll) /\ WF_vars(LoadGet) /\ WF_vars(LoadSet)
  /\ WF_vars(SaverTick) /\ WF_vars(SaveBegin("saver")) /\ WF_vars(SaveHSet("saver"))
  /\ WF_vars(IncLock("t1")) /\ WF_vars(IncWrite("t1"))

SpecDegraded == Init /\ [][NextDegraded]_vars /\ FairDegraded

\* The concurrent-increment scenario: the service has started against an empty
\* Redis; every task submits StressT clicks {country: "JP", clicks: 1}, each from
\* a new client address, while the ticker saves and leaderboards are read.
InitStress ==
  /\ now = StartNow
  /\ redisUp = TRUE
  /\ durClicks = EmptyMap
  /\ durStart = FormatInt(Unix(StartNow))
  /\ proc = "running"
  /\ boots = 1
  /\ countryClicks = EmptyMap
  /\ lastClickIP = EmptyMap
  /\ startTime = StartNow
  /\ dirty = FALSE
  /\ muWriter = None
  /\ muReaders = {}
  /\ pcMain = "serve"
  /\ mode = "redis"
  /\ loadErr = FALSE
  /\ pcTask = [t \in Tasks |-> "idle"]
  /\ pending = [t \in Tasks |-> NoPending]
  /\ lbBuild = [t \in Tasks |-> EmptyMap]
  /\ pcSave = [saver |-> "select", sig |-> "wait"]
  /\ clicksMap = [g \in Savers |-> EmptyMap]
  /\ saverFinal = FALSE
  /\ stopClosed = FALSE
  /\ connClosed = FALSE
  /\ ticks = 0
  /\ lastStatus = 0
  /\ lbResp = <<>>
  /\ accepted = EmptyMap
  /\ incCalls = EmptyMap
  /\ loaded = EmptyMap
  /\ lastSaved = EmptyMap
  /\ lastSavedEpoch = [epoch |-> 0, keyed |-> FALSE]
  /\ created = <<StartNow>>
  /\ savedBoot = 0
  /\ savesAfterSignal = 0
  /\ writeFailed = "no"
  /\ ioLog = {"PING", "HGETALL", "GET", "SET"}
  /\ epochKeyed = TRUE
  /\ admits = EmptyMap
  /\ inflight = [t \in Tasks |-> NoRequest]
  /\ done = {}
  /\ addedBy = EmptyMap

OneClickJP == [bad |-> FALSE, country |-> "JP", clicks |-> 1]

StressClick(t) ==
  /\ Get(incCalls, t) < StressT
  /\ HandleClick(t, <<t, Get(incCalls, t) + 1>>, OneClickJP)

NextStress ==
  \/ \E t \in Tasks : StressClick(t)
  \/ \E t \in Tasks : IncLock(t)
  \/ \E t \in Tasks : IncWrite(t)
  \/ \E t \in Tasks : HandleLeaderboard(t)
  \/ SaverTick
  \/ SaveBegin("saver")
  \/ SaveHSet("saver")

SpecStress == InitStress /\ [][NextStress]_vars

\* ------------------------------------------------------------- properties
RECURSIVE SumRows(_, _)
SumRows(resp, i) == IF i > Len(resp) THEN 0 ELSE resp[i].clicks + SumRows(resp, i + 1)

\* resp has, after its first row, exactly one row per country of acc, showing
\* acc's value, and its first row shows the sum of the other rows
LbReflects(resp, acc) ==
  /\ Len(resp) = 1 + Cardinality(DOMAIN acc)
  /\ \A c \in DOMAIN acc :
        \E i \in 2..Len(resp) : resp[i].country = c /\ resp[i].clicks = acc[c]
  /\ resp[1].clicks = SumRows(resp, 2)

\* what loadFromRedis would put into the empty store of a new process
Recovered == LoadClicks(EmptyMap, durClicks)

\* C1: in a process that started from an empty store, a leaderboard reply shows
\* for every country the sum of the clamped deltas of the click submissions
\* committed for it, and its Worldwide row shows the sum of the country rows.
C1_Conservation ==
  (lbResp # <<>> /\ loaded = EmptyMap) => LbReflects(lbResp, accepted)

C1_Witness ==
  /\ lbResp # <<>> /\ Len(lbResp) = 3 /\ lbResp[1].clicks = 13
  /\ loaded = EmptyMap /\ Get(accepted, "JP") = 3 /\ Get(accepted, "Unknown") = 10

\* C2: when each of the tasks has completed StressT increments of "JP" by 1,
\* interleaved in any way with each other, with saves and with leaderboard
\* reads, the count of "JP" is (number of tasks) * StressT.
C2_NoLostUpdates ==
  (\A t \in Tasks : pcTask[t] = "idle" /\ Get(incCalls, t) = StressT)
     => Get(countryClicks, "JP") = Cardinality(Tasks) * StressT

C2_Witness ==
  /\ \A t \in Tasks : pcTask[t] = "idle" /\ Get(incCalls, t) = StressT
  /\ Get(countryClicks, "JP") = Cardinality(Tasks) * StressT
  /\ savedBoot = boots /\ lbResp # <<>>

\* C3: whenever a process that reached Redis at startup is serving, a kill
\* followed by a restart and Load() would yield exactly the counters that were
\* in memory at the last successful Save() of this process, or at its Load()
\* if no Save() succeeded yet.
C3_CrashLossBound ==
  (pcMain = "serve" /\ mode = "redis")
     => Recovered = (IF savedBoot = boots THEN lastSaved ELSE loaded)

\* C4: when the process has exited after a termination signal, with Redis
\* reachable and no Redis call of the run failed, the durable hash equals the
\* in-memory counters at exit.
C4_GracefulShutdownLosesNothing ==
  (proc = "exited" /\ redisUp /\ writeFailed = "no" /\ ~loadErr)
     => Recovered = countryClicks

\* C5: between the termination signal and the exit of the process, Save() is
\* invoked exactly once.
C5_ExactlyOneFinalSave ==
  proc = "exited" => savesAfterSignal = 1

\* a process whose Load() had every Redis call succeed, after a successful
\* Save() of an earlier process and before any Save() of its own
RoundTripCase ==
  /\ pcMain = "serve" /\ mode = "redis" /\ ~loadErr /\ epochKeyed
  /\ savedBoot > 0 /\ savedBoot < boots

C7_IdleSaveWritesOnce ==
  [][\A g \in Savers : (pcSave[g] = "begin" /\ pcSave'[g] = "hset") => dirty]_vars

\* the step in which goroutine g returns from its HSET
SaveStepOf(g) == pcSave[g] = "hset" /\ pcSave'[g] # "hset" /\ boots' = boots

\* C8: a Save() whose HSET fails leaves the dirty flag and the counters as they
\* were, returns without a second attempt, and leaves the store such that the
\* next Save() attempts the write again; a Save() whose HSET succeeds leaves
\* every in-memory counter in the durable hash.
C8_FailedSaveKeepsDirty ==
  [][\A g \in Savers :
       /\ (SaveStepOf(g) /\ ~RedisOk) =>
             /\ dirty' = dirty
             /\ countryClicks' = countryClicks
             /\ durClicks' = durClicks
             /\ pcSave'[g] = AfterSave(g)
             /\ ~NothingToSave(dirty', countryClicks')
       /\ (SaveStepOf(g) /\ RedisOk) =>
             \A c \in DOMAIN countryClicks :
                /\ c \in DOMAIN durClicks'
                /\ ParseInt(durClicks'[c]) = [ok |-> TRUE, val |-> countryClicks[c]]
    ]_vars

C8_Witness ==
  /\ writeFailed = "recovered" /\ ~dirty
  /\ countryClicks # EmptyMap /\ Recovered = countryClicks
  /\ pcSave["saver"] = "select" /\ ticks = MaxTicks

\* C9: when Redis does not answer at startup the process goes on to serve in
\* memory-only mode; in that mode no Redis call other than the PING of
\* startup is ever issued, the durable store is not changed, and leaderboard
\* replies show the committed click submissions.
C9_MemoryOnlyMode ==
  [][/\ (Running /\ pcMain = "init" /\ ~redisUp /\ pcMain' # "init") =>
            (proc' = "running" /\ pcMain' = "serve" /\ mode' = "memory")
     /\ mode' = "memory" =>
            /\ ioLog' = {"PING"}
            /\ durClicks' = durClicks /\ durStart' = durStart
            /\ lbResp' # <<>> => LbReflects(lbResp', accepted')
    ]_vars

C9_Witness ==
  /\ MemoryOnly /\ ioLog = {"PING"} /\ durClicks = EmptyMap
  /\ lbResp # <<>> /\ Len(lbResp) = 3 /\ LbReflects(lbResp, accepted)

\* C10 as stated: in memory-only mode, once Redis is reachable again a snapshot
\* of the accumulated counters is eventually written (unless Redis goes away
\* again).
C10_EventuallyWritten ==
  (MemoryOnly /\ redisUp /\ dirty) ~> (durClicks # EmptyMap \/ ~redisUp)

\* C10 as amended: a process that found Redis unreachable at startup never
\* writes to the durable store and starts no save goroutine, also while Redis
\* is reachable again.
C10_NeverWritten ==
  [][(mode = "memory" /\ redisUp /\ boots' = boots) =>
        (durClicks' = durClicks /\ durStart' = durStart /\ pcSave' = pcSave)]_vars

C10_Witness ==
  /\ MemoryOnly /\ redisUp /\ dirty
  /\ countryClicks # EmptyMap /\ durClicks = EmptyMap /\ durStart = <<>>

\* the step in which task t commits its increment and replies 200
CommitStepOf(t) == pcTask[t] = "inc_write" /\ pcTask'[t] = "idle" /\ boots' = boots

\* the country a click request is counted for
TargetOf(req) == IF req.country = "" THEN "Unknown" ELSE req.country

\* C11: the commit of an accepted click submission with clicks = k makes the
\* counter of its target country grow by exactly 10 when k > 10, by 1 when
\* k < 1, and by k otherwise.
C11_Clamping ==
  [][\A t \in Tasks : CommitStepOf(t) =>
        LET k == inflight[t].clicks
            c == TargetOf(inflight[t])
        IN Get(countryClicks', c) - Get(countryClicks, c) =
              (IF k > 10 THEN 10 ELSE IF k < 1 THEN 1 ELSE k)
    ]_vars

C11_Witness ==
  /\ Get(countryClicks, "JP") = 14 /\ Total(incCalls) = 3
  /\ {r.clicks : r \in done} = {0, 3, 11}
  /\ \A r \in done : r.country = "JP"

\* the times at which the rate limiter let client ip pass so far
AdmitsOf(ip) == IF ip \in DOMAIN admits THEN admits[ip] ELSE {}

\* C12: a click of a client at a time strictly before t + window, for a time t
\* at which the rate limiter let a click of that client pass, is rejected (and
\* is not recorded as passed); a click at or after t + window for every such t
\* is let pass.
C12_RateLimitTiming ==
  [][\A t \in Tasks, body \in ServeBodies :
        HandleClick(t, ClientIP(t), body) =>
           IF \E u \in AdmitsOf(ClientIP(t)) : now < u + rateLimitTime
           THEN lastStatus' = 429 /\ admits' = admits /\ pcTask' = pcTask
           ELSE now \in admits'[ClientIP(t)] /\ (body.bad \/ pcTask'[t] = "inc_lock")
    ]_vars

C12_Witness ==
  /\ AdmitsOf(ClientIP("t1")) = {StartNow, StartNow + rateLimitTime}
  /\ AdmitsOf(ClientIP("t2")) = {}
  /\ lastStatus = 429 /\ pcTask["t1"] = "inc_lock"

\* C13: a step that replies 429 leaves the counters, the dirty flag and the
\* rate limiter's timestamps as they were and starts no increment.
C13_RejectedChangesNothing ==
  [][(lastStatus' = 429 /\ respVars' # respVars) =>
        /\ countryClicks' = countryClicks /\ dirty' = dirty
        /\ lastClickIP' = lastClickIP /\ taskVars' = taskVars
    ]_vars

C13_Witness ==
  /\ lastStatus = 429 /\ now = StartNow + 1
  /\ DOMAIN lastClickIP = {ClientIP("t1")} /\ lastClickIP[ClientIP("t1")] = StartNow
  /\ countryClicks # EmptyMap /\ dirty

\* C14: a step that replies 400 (unparsable body of a click or score request)
\* leaves the counters, the dirty flag and the rate limiter's timestamps as
\* they were.
C14_MalformedChangesNothing ==
  [][(lastStatus' = 400 /\ lastStatus # 400 /\ boots' = boots) =>
        /\ countryClicks' = countryClicks /\ dirty' = dirty
        /\ lastClickIP' = lastClickIP
    ]_vars

\* C15: a leaderboard reply has as its first row the Worldwide aggregate, with
\* the total of all counters and the rate total / elapsed seconds (0 when no
\* time has elapsed), followed by exactly one row per country of the store
\* with that country's count, in non-increasing order of count.
C15_LeaderboardShape ==
  [][(lbResp' # <<>> /\ lbResp' # lbResp /\ boots' = boots) =>
        LET r == lbResp'
            m == countryClicks
            elapsed == now - startTime
        IN /\ Len(r) = 1 + Cardinality(DOMAIN m)
           /\ r[1].country = "Worldwide"
           /\ r[1].clicks = SumOver(m, DOMAIN m)
           /\ IF elapsed > 0
              THEN r[1].kps.num * elapsed = SumOver(m, DOMAIN m) * TicksPerSec * r[1].kps.den
              ELSE r[1].kps.num = 0
           /\ \A c \in DOMAIN m :
                 /\ Cardinality({i \in 2..Len(r) : r[i].country = c}) = 1
                 /\ \A i \in 2..Len(r) : r[i].country = c => r[i].clicks = m[c]
           /\ \A i \in 2..(Len(r) - 1) : r[i].clicks >= r[i + 1].clicks
    ]_vars

C15_Witness ==
  /\ lbResp # <<>> /\ Len(lbResp) = 4
  /\ lbResp[2].clicks > lbResp[3].clicks /\ lbResp[3].clicks > lbResp[4].clicks
  /\ lbResp[1].kps.num > 0 /\ lbResp[1].clicks = 14

\* C16: a request is handled (a task moves, a reply is produced, a rate-limit
\* timestamp is written) only when main() has reached the server loop, with
\* loadFromRedis finished or skipped; and in a process whose Load() succeeded,
\* a leaderboard served before any click of that process was committed shows
\* the persisted counters.
C16_StartupOrdering ==
  [][/\ ((taskVars' # taskVars \/ respVars' # respVars \/ lastClickIP' # lastClickIP)
           /\ boots' = boots)
        => (pcMain = "serve" /\ muWriter # "main")
     /\ (lbResp' # <<>> /\ mode' = "redis" /\ ~loadErr' /\ accepted' = EmptyMap)
        => LbReflects(lbResp', LoadClicks(EmptyMap, durClicks'))
    ]_vars

C16_Witness ==
  /\ boots = 2 /\ mode = "redis" /\ ~loadErr /\ accepted = EmptyMap
  /\ lbResp # <<>> /\ Len(lbResp) = 2 /\ lbResp[2].clicks = 10
  /\ savedBoot = 1

\* C17: the clicks added to the counters by the submissions of one client
\* address within one second are at most 10.
C17_TenClicksPerSecond ==
  (now - StartNow < TicksPerSec /\ boots = 1) =>
     \A ip \in DOMAIN addedBy : addedBy[ip] <= 10

\* C18: a click request identical to one that was already committed does not
\* increase any counter again.
C18_NoReplay ==
  [][\A t \in Tasks : (CommitStepOf(t) /\ inflight[t] \in done) =>
        countryClicks' = countryClicks]_vars

\* C19: the process has exited after a termination signal (in a run in which
\* no Redis call failed) only when the final Save() of the periodic-save
\* goroutine has completed.
C19_ExitAfterFinalSave ==
  (proc = "exited" /\ ~loadErr /\ epochKeyed /\ writeFailed = "no")
     => pcSave["saver"] = "done"

\* C20: once the termination signal has been received (in a run in which no
\* Redis call failed), the periodic-save goroutine starts no further
\* tick-driven Save(), and the service does not go back to running without a
\* shutdown in progress.
C20_Lifecycle ==
  [][(stopClosed /\ ~loadErr /\ epochKeyed /\ writeFailed = "no" /\ boots' = boots) =>
        /\ stopClosed'
        /\ (pcSave["saver"] = "select" /\ pcSave'["saver"] = "begin") => saverFinal'
    ]_vars
\* C21: an increment that commits after a Save() took its snapshot is not lost
\* to the dirty-flag clearing of that Save(): every commit sets the dirty
\* flag, and when a Save() returns, the dirty flag is set or every counter in
\* memory is in the durable hash with its current value.
C21_IncrementAfterSnapshot ==
  [][/\ \A t \in Tasks : CommitStepOf(t) => dirty'
     /\ \A g \in Savers :
          SaveStepOf(g) =>
            \/ dirty'
            \/ \A c \in DOMAIN countryClicks' :
                 c \in DOMAIN Recovered' /\ Recovered'[c] = countryClicks'[c]]_vars

\* a Save() holds its snapshot inside HSET while an increment waits for the
\* lock, after an earlier increment was committed
C21_Witness ==
  /\ pcSave["saver"] = "hset" /\ clicksMap["saver"] = countryClicks
  /\ Get(countryClicks, "JP") = 3
  /\ \E t \in Tasks : pcTask[t] = "inc_lock" /\ pending[t].country = "Unknown"

\* C22: the increment path never waits on Redis I/O: while a Save() is inside
\* its HSET call, an increment that a request task is about to make can take
\* the lock.
C22_IncrementNeverWaits ==
  \A g \in Savers, t \in Tasks :
     (/\ proc = "running" /\ redisUp /\ ~loadErr /\ epochKeyed /\ writeFailed = "no"
      /\ pcSave[g] = "hset" /\ pcTask[t] = "inc_lock")
        => ENABLED IncLock(t)

\* C23: under any interleaving of increments with leaderboard builds and
\* saves, a leaderboard reply shows the counter mapping as it is at the
\* instant of the reply, with a Worldwide total equal to the sum of its country
\* rows, and a Save() writes to the hash the counter mapping as it is at the
\* instant of the write.
C23_ConsistentCut ==
  [][/\ \A t \in Tasks :
          (pcTask[t] = "lb_read" /\ pcTask'[t] = "idle")
             => LbReflects(lbResp', countryClicks)
     /\ \A g \in Savers :
          (SaveStepOf(g) /\ durClicks' # durClicks)
             => \A c \in DOMAIN countryClicks :
                   c \in DOMAIN Recovered' /\ Recovered'[c] = countryClicks[c]]_vars

\* a reply built row by row over two countries while an increment waited
C23_Witness ==
  /\ lbResp # <<>> /\ Len(lbResp) = 3 /\ lbResp[1].clicks = 13
  /\ LbReflects(lbResp, countryClicks)
  /\ pcTask["t2"] = "idle" /\ pcTask["t1"] = "inc_lock"
  /\ savedBoot = boots

C25_DirtyFlagInvariant ==
  (pcMain = "serve" /\ mode = "redis" /\ ~dirty) => Recovered = countryClicks

\* a serving process whose Load() read or wrote the persisted epoch key
EpochCase == pcMain = "serve" /\ mode = "redis" /\ epochKeyed /\ created # <<>>

C27_CountersMonotone ==
  /\ [](\A c \in DOMAIN countryClicks : countryClicks[c] >= 0)
  /\ [][(pcMain = "serve" /\ pcMain' = "serve" /\ boots' = boots)
          => \A c \in DOMAIN countryClicks :
                c \in DOMAIN countryClicks' /\ countryClicks'[c] >= countryClicks[c]]_vars

\* a second boot has loaded JP = 3 and committed a request of -2 clicks for JP
C27_Witness ==
  /\ boots = 2 /\ pcMain = "serve" /\ Get(loaded, "JP") = 3
  /\ Get(countryClicks, "JP") = 4
  /\ \E r \in done : r.country = "JP" /\ r.clicks = -2

\* C28: score submissions and leaderboard reads are never rate limited and
\* leave the core state alone: whenever the service is serving and a task is
\* idle it can submit a score, and read the leaderboard unless an increment
\* holds the lock at that instant, however recently its client was accepted;
\* the reply is never 429, and the counters, the dirty flag and the rate
\* limiter's map are unchanged.
C28_ScoreAndLeaderboardFree ==
  /\ [](\A t \in Tasks :
          (Serving /\ pcTask[t] = "idle") =>
             /\ \A body \in ScoreBodies : ENABLED HandleScore(t, body)
             /\ muWriter = None => ENABLED HandleLeaderboard(t))
  /\ [][\A t \in Tasks :
          /\ \A body \in ScoreBodies :
               HandleScore(t, body) =>
                  /\ lastStatus' = (IF body.bad THEN 400 ELSE 200)
                  /\ UNCHANGED <<countryClicks, dirty, lastClickIP>>
          /\ HandleLeaderboard(t) =>
                  /\ lastStatus' = 200
                  /\ UNCHANGED <<countryClicks, dirty, lastClickIP>>]_vars

\* a leaderboard reply given at the very instant at which both clients were
\* accepted by the rate limiter
C28_Witness ==
  /\ \A t \in Tasks : Get(lastClickIP, ClientIP(t)) = now /\ pcTask[t] = "idle"
  /\ lbResp # <<>> /\ lastStatus = 200 /\ dirty

\* C29: the durable counter of a country is never overwritten with a smaller
\* value: no step, in any boot, lowers the value a field of the hash holds.
C29_DurableNeverSmaller ==
  [][\A c \in DOMAIN Recovered :
        c \in DOMAIN Recovered' /\ Recovered'[c] >= Recovered[c]]_vars

\* C30: whatever country strings the clients choose, a leaderboard reply has
\* exactly one row whose country is "Worldwide".
C30_OneWorldwideRow ==
  lbResp # <<>> =>
     Cardinality({i \in 1..Len(lbResp) : lbResp[i].country = "Worldwide"}) = 1

\* C31: during shutdown the Redis connection is not closed while a Save() is
\* pending or in progress: no Save() makes its HSET call on a connection that
\* the signal goroutine has already closed.
C31_NoSaveOnClosedConnection ==
  [][\A g \in Savers :
        (SaveStepOf(g) /\ redisUp /\ ~loadErr /\ epochKeyed /\ writeFailed = "no")
           => ~connClosed]_vars

=============================================================================
